---- MODULE Spec2Model ----
(***************************************************************************)
(* Satty's singleton-daemon IPC subsystem: the D-Bus name arbitration at   *)
(* daemon startup (daemon.rs), the method-call dispatch closure (ipc.rs),  *)
(* the handler arms and their deferred tasks on the glib main loop         *)
(* (daemon.rs), and the client call (ipc.rs, IpcClient::send_message).     *)
(*                                                                         *)
(* Strings that are parsed by the code (the reply strings) are sequences   *)
(* of one-character strings, so that starts_with / strip_prefix are        *)
(* computed as the code computes them.                                     *)
(***************************************************************************)
EXTENDS Integers, Sequences, FiniteSets, TLC

\* ------------------------------------------------------------------ bounds
\* Number of daemon processes that may be launched (satty --daemon).
NumDaemons == 2
\* Number of bus method calls issued to com.gabm.satty over a behaviour.
MaxCalls == 2

Daemons == 1 .. NumDaemons

\* "no process": the bus name has no owner / the call was routed nowhere.
NoProcess == 0

\* ------------------------------------------------------ message protocol
\* enum IpcMessage { LoadImage { filename }, Shutdown, Ping }
IpcMessage(variant, filename) == [variant |-> variant, filename |-> filename]

NoMessage == IpcMessage("", "")

\* enum IpcResponse { Ok, Error(String), Pong }
IpcResponse(tag, msg) == [tag |-> tag, msg |-> msg]

NoResponse == IpcResponse("", <<>>)

\* A D-Bus argument: type signature and value.
Arg(ty, v) == [ty |-> ty, v |-> v]

\* The files Pixbuf::from_file can decode (the state of the file system).
DecodableFiles == {"/a.png"}

\* The (method, params) pairs sent to the exported object. The first four
\* are the ones IpcClient::send_message produces; the last three are
\* malformed calls any other bus client (busctl, dbus-send) can make.
Requests ==
    { [method |-> "Ping",      params |-> <<>>],
      [method |-> "Shutdown",  params |-> <<>>],
      [method |-> "LoadImage", params |-> <<Arg("s", "/a.png")>>],
      [method |-> "LoadImage", params |-> <<Arg("s", "/missing.png")>>],
      [method |-> "LoadImage", params |-> <<>>],
      [method |-> "LoadImage", params |-> <<Arg("u", "7")>>],
      [method |-> "Foo",       params |-> <<>>] }

\* Mutant of from_method_call: a LoadImage payload without a string falls
\* back to an empty filename instead of failing with InvalidArgs.
from_method_call_Lenient(method, params) ==
    CASE method = "LoadImage" ->
            IF Len(params) = 1 /\ params[1].ty = "s"
            THEN [ok |-> TRUE, msg |-> IpcMessage("LoadImage", params[1].v), err |-> ""]
            ELSE [ok |-> TRUE, msg |-> IpcMessage("LoadImage", ""), err |-> ""]
      [] method = "Shutdown" ->
            [ok |-> TRUE, msg |-> IpcMessage("Shutdown", ""), err |-> ""]
      [] method = "Ping" ->
            [ok |-> TRUE, msg |-> IpcMessage("Ping", ""), err |-> ""]
      [] OTHER ->
            [ok |-> FALSE, msg |-> NoMessage, err |-> "UnknownMethod"]

\* IpcMessage::from_method_call: Result<IpcMessage, glib::Error>
from_method_call(method, params) ==
    CASE method = "LoadImage" ->
            \* params.get::<(String,)>() is Some only for a payload of type (s)
            IF Len(params) = 1 /\ params[1].ty = "s"
            THEN [ok |-> TRUE, msg |-> IpcMessage("LoadImage", params[1].v), err |-> ""]
            ELSE [ok |-> FALSE, msg |-> NoMessage, err |-> "InvalidArgs"]
      [] method = "Shutdown" ->
            [ok |-> TRUE, msg |-> IpcMessage("Shutdown", ""), err |-> ""]
      [] method = "Ping" ->
            [ok |-> TRUE, msg |-> IpcMessage("Ping", ""), err |-> ""]
      [] OTHER ->
            [ok |-> FALSE, msg |-> NoMessage, err |-> "UnknownMethod"]

\* IpcResponse::to_variant: the single reply string
to_variant(response) ==
    CASE response.tag = "Ok"    -> <<"O", "k">>
      [] response.tag = "Error" -> <<"E", "r", "r", "o", "r", ":", " ">> \o response.msg
      [] response.tag = "Pong"  -> <<"P", "o", "n", "g">>

starts_with(s, prefix) ==
    /\ Len(s) >= Len(prefix)
    /\ SubSeq(s, 1, Len(prefix)) = prefix

\* str::strip_prefix(..).unwrap_or(&response_str)
strip_prefix_or(s, prefix) ==
    IF starts_with(s, prefix) THEN SubSeq(s, Len(prefix) + 1, Len(s)) ELSE s

\* IpcClient::send_message, the decoding of the reply string
decode_response(response_str) ==
    IF starts_with(response_str, <<"E", "r", "r", "o", "r", ":">>)
    THEN IpcResponse("Error",
                     strip_prefix_or(response_str, <<"E", "r", "r", "o", "r", ":", " ">>))
    ELSE IF response_str = <<"P", "o", "n", "g">>
         THEN IpcResponse("Pong", <<>>)
         ELSE IpcResponse("Ok", <<>>)

\* ------------------------------------------------------------ the bus
\* Mutant of RequestNameFlags: the request also asks to replace an existing owner.
RequestNameFlags_Replacing == 1 + 2 + 4

\* The flags DaemonServer::run passes to org.freedesktop.DBus.RequestName:
\* 1 (allow replacement) | 4 (do not queue).
RequestNameFlags == 1 + 4

\* bit test on a flags word
HasFlag(flags, bit) == (flags \div bit) % 2 = 1

\* org.freedesktop.DBus.RequestName as the bus executes it, for a requester
\* and its flags, given the present owner, the flags the owner asked with
\* and the queue of waiting requesters:
\*   1 primary owner, 2 in queue, 3 exists, 4 already owner.
\* (bit 1 allow replacement, bit 2 replace existing, bit 4 do not queue)
BusRequestName(own, ownFlags, queue, d, flags) ==
    IF own = NoProcess
    THEN [reply |-> 1, owner |-> d, ownerFlags |-> flags, waiting |-> queue]
    ELSE IF own = d
    THEN [reply |-> 4, owner |-> d, ownerFlags |-> flags, waiting |-> queue]
    ELSE IF HasFlag(ownFlags, 1) /\ HasFlag(flags, 2)
    THEN [reply |-> 1, owner |-> d, ownerFlags |-> flags,
          waiting |-> IF HasFlag(ownFlags, 4) THEN queue ELSE <<own>> \o queue]
    ELSE IF HasFlag(flags, 4)
    THEN [reply |-> 3, owner |-> own, ownerFlags |-> ownFlags, waiting |-> queue]
    ELSE [reply |-> 2, owner |-> own, ownerFlags |-> ownFlags,
          waiting |-> Append(queue, [proc |-> d, flags |-> flags])]

\* The bus when the connection of process d closes: d leaves the queue, and a
\* name d owned passes to the first waiting requester, if any.
BusRelease(own, ownFlags, queue, d) ==
    LET rest == SelectSeq(queue, LAMBDA w : w.proc # d)
    IN  IF own # d
        THEN [owner |-> own, ownerFlags |-> ownFlags, waiting |-> rest]
        ELSE IF rest = <<>>
        THEN [owner |-> NoProcess, ownerFlags |-> 0, waiting |-> rest]
        ELSE [owner |-> Head(rest).proc, ownerFlags |-> Head(rest).flags,
              waiting |-> Tail(rest)]

\* ------------------------------------------------------------ the daemon
\* Mutant of name_result_match: reply 3 only prints and falls through.
name_result_match_NoReturn(name_result) ==
    CASE name_result = 1 ->
            [proceed |-> TRUE,  text |-> "Daemon listening on DBus: com.gabm.satty"]
      [] name_result = 2 ->
            [proceed |-> FALSE, text |-> "Daemon already running on DBus"]
      [] name_result = 3 ->
            [proceed |-> TRUE,  text |-> "Name already exists on DBus"]
      [] name_result = 4 ->
            [proceed |-> TRUE,  text |-> "Daemon became primary owner on DBus"]
      [] OTHER ->
            [proceed |-> FALSE, text |-> "Unknown name request result"]

\* DaemonServer::run, the match on name_result: whether startup proceeds to
\* register_object, and the message printed or returned as the error.
name_result_match(name_result) ==
    CASE name_result = 1 ->
            [proceed |-> TRUE,  text |-> "Daemon listening on DBus: com.gabm.satty"]
      [] name_result = 2 ->
            [proceed |-> FALSE, text |-> "Daemon already running on DBus"]
      [] name_result = 3 ->
            [proceed |-> FALSE, text |-> "Name already exists on DBus"]
      [] name_result = 4 ->
            [proceed |-> TRUE,  text |-> "Daemon became primary owner on DBus"]
      [] OTHER ->
            [proceed |-> FALSE, text |-> "Unknown name request result"]

\* A source on the glib main loop of a daemon process: an incoming method
\* call waiting for dispatch, or a future spawned with spawn_future_local.
\* call is the bus call it stems from (0 for none), kept to tell the
\* commands of different calls apart.
Task(kind, call, message) == [kind |-> kind, call |-> call, message |-> message]

\* Mutant of PingArm: Ping is treated like the _ arm and spawns a future.
PingArm_Spawns ==
    [response |-> IpcResponse("Pong", <<>>),
     spawned  |-> <<Task("handle_message", 0, IpcMessage("Ping", ""))>>]

\* DaemonServer::run, the handler closure, arm IpcMessage::Ping
PingArm ==
    [response |-> IpcResponse("Pong", <<>>), spawned |-> <<>>]

\* Mutant of ShutdownArm: the exit future is not spawned.
ShutdownArm_NoExit ==
    [response |-> IpcResponse("Ok", <<>>),
     spawned  |-> <<>>]

\* DaemonServer::run, the handler closure, arm IpcMessage::Shutdown
ShutdownArm ==
    [response |-> IpcResponse("Ok", <<>>),
     spawned  |-> <<Task("exit", 0, NoMessage)>>]

\* Mutant of OtherArm: for a file that cannot be decoded the inner future is
\* spawned at once, without the future that calls handle_message.
OtherArm_Shortcut(message, call) ==
    [response |-> IpcResponse("Ok", <<>>),
     spawned  |-> IF message.filename \in DecodableFiles
                  THEN <<Task("handle_message", call, message)>>
                  ELSE <<Task("load_pixbuf", call, message)>>]

\* Mutant of OtherArm: the image is decoded inside the callback and a failed
\* decode is reported in the reply.
OtherArm_SyncLoad(message, call) ==
    [response |-> IF message.filename \in DecodableFiles
                  THEN IpcResponse("Ok", <<>>)
                  ELSE IpcResponse("Error", <<"l", "o", "a", "d">>),
     spawned  |-> <<Task("handle_message", call, message)>>]

\* DaemonServer::run, the handler closure, arm _ (LoadImage)
OtherArm(message, call) ==
    [response |-> IpcResponse("Ok", <<>>),
     spawned  |-> <<Task("handle_message", call, message)>>]

\* DaemonServer::run, the handler closure given to register_object: the
\* response it returns and the futures it spawns on the main loop.
callback(message, call) ==
    CASE message.variant = "Ping"     -> PingArm
      [] message.variant = "Shutdown" -> ShutdownArm
      [] OTHER                        -> OtherArm(message, call)

\* Mutant of handle_message: the inner future is never spawned.
handle_message_NoSpawn(message, call) == <<>>

\* DaemonServer::handle_message: the futures it spawns.
handle_message(message, call) ==
    IF message.variant = "LoadImage"
    THEN <<Task("load_pixbuf", call, message)>>
    ELSE <<>>

\* DaemonServer::load_pixbuf_from_file: TRUE for Ok(pixbuf)
load_pixbuf_from_file(filename) == filename \in DecodableFiles

\* A command on the application event channel (AppInput), with the call it
\* was sent for.
AppInput(cmd, call) == [cmd |-> cmd, call |-> call]

\* Mutant of load_commands: the window is shown before the image is loaded.
load_commands_ShowFirst(filename, call) ==
    IF filename \in DecodableFiles
    THEN <<AppInput("ShowWindow", call), AppInput("LoadNewImage", call)>>
    ELSE <<AppInput("HideWindow", call)>>

\* Mutant of load_commands: a failed decode is only logged.
load_commands_NoHide(filename, call) ==
    IF filename \in DecodableFiles
    THEN <<AppInput("LoadNewImage", call), AppInput("ShowWindow", call)>>
    ELSE <<>>

\* The inner future of handle_message: the commands it sends.
load_commands(filename, call) ==
    IF load_pixbuf_from_file(filename)
    THEN <<AppInput("LoadNewImage", call), AppInput("ShowWindow", call)>>
    ELSE <<AppInput("HideWindow", call)>>

\* Mutant of method_call: a call that fails to decode is dropped without
\* completing the invocation.
method_call_Silent(method, params, call) ==
    LET decoded == from_method_call(method, params)
        h       == callback(decoded.msg, call)
    IN  IF decoded.ok
        THEN [reply   |-> [kind |-> "value", body |-> to_variant(h.response), error |-> ""],
              handled |-> TRUE,
              spawned |-> h.spawned]
        ELSE [reply   |-> [kind |-> "none", body |-> <<>>, error |-> ""],
              handled |-> FALSE,
              spawned |-> <<>>]

\* The method_call closure of IpcServer::register_object for one incoming
\* call: the reply it completes the invocation with, whether the handler was
\* invoked and the futures the handler spawned.
method_call(method, params, call) ==
    LET decoded == from_method_call(method, params)
        h       == callback(decoded.msg, call)
    IN  IF decoded.ok
        THEN \* invocation.return_value(Some(&response.to_variant()))
             [reply   |-> [kind |-> "value", body |-> to_variant(h.response), error |-> ""],
              handled |-> TRUE,
              spawned |-> h.spawned]
        ELSE \* invocation.return_gerror(e)
             [reply   |-> [kind |-> "error", body |-> <<>>, error |-> decoded.err],
              handled |-> FALSE,
              spawned |-> <<>>]

NoReplyYet == [kind |-> "none", body |-> <<>>, error |-> ""]

\* The DaemonServer of a daemon process with the registration_id slot of its
\* IpcServer: held says that the value is still owned (not dropped), writes
\* counts the assignments to the slot.
NoServer == [held |-> FALSE, registration_id |-> "None", writes |-> 0]

\* DaemonServer::new, IpcServer::new: registration_id: RefCell::new(None)
DaemonServer_new == [held |-> TRUE, registration_id |-> "None", writes |-> 0]

\* IpcServer::register_object: self.registration_id.replace(Some(registration_id))
register_object(srv) == [srv EXCEPT !.registration_id = "Some", !.writes = @ + 1]

\* DaemonServer::run(self, ..) returns: self goes out of scope
run_returns(srv) == [srv EXCEPT !.held = FALSE]

\* ------------------------------------------------------------ the client
\* Result<IpcResponse> of IpcClient::send_message
Pending == [kind |-> "pending", resp |-> NoResponse, why |-> ""]

Responded(resp) == [kind |-> "response", resp |-> resp, why |-> ""]

\* Err: connection or call failure; why is the D-Bus error of the failed call
Failed(why) == [kind |-> "failure", resp |-> NoResponse, why |-> why]

\* IpcClient::send_message from the reply message on: a method return is
\* decoded, an error reply fails call_future ("Failed to call DBus method").
send_message_result(reply) ==
    IF reply.kind = "value"
    THEN Responded(decode_response(reply.body))
    ELSE Failed(reply.error)

\* Mutant of encode_message: the filename is sent as the method's only
\* argument without its tuple, which from_method_call does not accept.
encode_message_Bare(message) ==
    CASE message.variant = "LoadImage" ->
            [method |-> "LoadImage", params |-> <<Arg("v", message.filename)>>]
      [] message.variant = "Shutdown" ->
            [method |-> "Shutdown", params |-> <<>>]
      [] message.variant = "Ping" ->
            [method |-> "Ping", params |-> <<>>]

\* ------------------------------------------------------ the application
\* App::init: the App component; in daemon mode the root window starts
\* hidden (root.set_visible(false), visible_on_activate(!is_daemon)).
App_init(is_daemon) ==
    [is_daemon |-> is_daemon, running |-> TRUE, visible |-> ~is_daemon,
     applied |-> 0, exit_requested |-> FALSE, hid |-> FALSE]

\* Mutant of update: RequestExit quits the application in daemon mode too.
update_AlwaysQuits(a, cmd) ==
    CASE cmd = "ShowWindow"  -> [a EXCEPT !.visible = TRUE]
      [] cmd = "HideWindow"  -> [a EXCEPT !.visible = FALSE]
      [] cmd = "RequestExit" ->
            [a EXCEPT !.running = FALSE, !.exit_requested = TRUE]
      [] OTHER -> a

\* App::update, the arms ShowWindow, HideWindow and RequestExit (LoadNewImage
\* leaves the window as it is): running = FALSE after
\* relm4::main_application().quit()
update(a, cmd) ==
    CASE cmd = "ShowWindow"  -> [a EXCEPT !.visible = TRUE]
      [] cmd = "HideWindow"  -> [a EXCEPT !.visible = FALSE]
      [] cmd = "RequestExit" ->
            IF a.is_daemon
            THEN [a EXCEPT !.visible = FALSE, !.exit_requested = TRUE,
                           !.hid = @ \/ a.visible]
            ELSE [a EXCEPT !.running = FALSE, !.exit_requested = TRUE]
      [] OTHER -> a

\* Mutant of call_timeout: the expired call is also withdrawn from the daemon.
call_timeout_Cancels(k) ==
    [call   |-> [k EXCEPT !.result = Failed("Timeout"), !.expiredIn = k.st],
     cancel |-> TRUE]

\* IpcClient::send_message, call_future(.., 5000) when no reply arrived in
\* 5000 ms: the future fails with a timeout error at the caller; nothing is
\* sent to the daemon (cancel: the call is withdrawn from the daemon).
call_timeout(k) ==
    [call   |-> [k EXCEPT !.result = Failed("Timeout"), !.expiredIn = k.st],
     cancel |-> FALSE]

\* IpcClient::send_message, the match that encodes the message as
\* (method_name, params)
encode_message(message) ==
    CASE message.variant = "LoadImage" ->
            [method |-> "LoadImage", params |-> <<Arg("s", message.filename)>>]
      [] message.variant = "Shutdown" ->
            [method |-> "Shutdown", params |-> <<>>]
      [] message.variant = "Ping" ->
            [method |-> "Ping", params |-> <<>>]

NoWire == [method |-> "", params |-> <<>>]

\* -------------------------------------------- the client's command line
\* The client operations main selects: --ping-daemon, --shutdown-daemon,
\* --send-to-daemon.
ClientOps == {"ping", "shutdown", "send_image"}

\* command_line.filename is None
NoFilename == "<none>"

\* The file system the client resolves a path against: the paths that
\* exist, each with its canonical absolute location.
AbsoluteLocation ==
    ("a.png" :> "/home/u/a.png") @@
    ("../u/a.png" :> "/home/u/a.png") @@
    ("/home/u/a.png" :> "/home/u/a.png") @@
    ("/home/u/link.png" :> "/home/u/a.png")

\* The --filename arguments of the client: absent, standard input, paths
\* that exist and a path that does not.
ClientArgs == {NoFilename, "-", "missing.png"} \cup DOMAIN AbsoluteLocation

\* std::process::id() of the client process
ClientPids == {4242, 4243}

\* What reading standard input to its end gives: the bytes, or an I/O error.
StdinReads ==
    { [ok |-> TRUE,  data |-> "png-bytes"],
      [ok |-> TRUE,  data |-> ""],
      [ok |-> FALSE, data |-> ""] }

\* Mutant of canonicalize: a path that exists is passed on as it was given.
canonicalize_AsGiven(filename) ==
    IF filename \in DOMAIN AbsoluteLocation
    THEN [ok |-> TRUE, path |-> filename]
    ELSE [ok |-> FALSE, path |-> ""]

\* fs::canonicalize(filename): the absolute location, Err for a path that
\* does not exist
canonicalize(filename) ==
    IF filename \in DOMAIN AbsoluteLocation
    THEN [ok |-> TRUE, path |-> AbsoluteLocation[filename]]
    ELSE [ok |-> FALSE, path |-> ""]

\* env::temp_dir()
temp_dir == "/tmp"

\* Mutant of temp_path: one file name for every client process.
temp_path_Shared(pid) == temp_dir \o "/satty.png"

\* temp_dir.join(format!("satty-{}.png", std::process::id()))
temp_path(pid) == temp_dir \o "/satty-" \o ToString(pid) \o ".png"

\* fs::write(path, contents): the file is created, or replaced whole
fs_write(files, path, contents) ==
    { f \in files : f.path # path } \cup {[path |-> path, content |-> contents]}

\* The strings a reply of type (s) can carry: the three forms to_variant
\* produces and strings the owner of the name may send otherwise.
ReplyStrings ==
    { <<"O", "k">>,
      <<"P", "o", "n", "g">>,
      <<"E", "r", "r", "o", "r", ":", " ", "x">>,
      <<"E", "r", "r", "o", "r", ":", " ">>,
      <<"E", "r", "r", "o", "r", ":", "x">>,
      <<"E", "r", "r", "o", "r">>,
      <<"O", "k", "a", "y">>,
      <<"p", "o", "n", "g">>,
      <<>> }

\* The D-Bus errors call_future can fail with; Timeout after 5000 ms without
\* a reply.
CallErrors ==
    {"ServiceUnknown", "UnknownObject", "UnknownMethod", "InvalidArgs", "NoReply", "Timeout"}

\* What call_future and result.get() give the client: a reply carrying a
\* string, a reply of another type ("Failed to parse DBus response"), or an
\* error.
CallOutcomes ==
    { [kind |-> "value", body |-> b, error |-> ""] : b \in ReplyStrings } \cup
    { [kind |-> "error", body |-> <<>>, error |-> e] : e \in CallErrors } \cup
    { [kind |-> "badtype", body |-> <<>>, error |-> "Failed to parse DBus response"] }

\* Mutant of client_finish: a failed send_message is tried again.
client_finish_Retry(op, result) ==
    IF result.kind = "response"
    THEN [pc |-> "done", exit |-> 0, printed |-> "ok"]
    ELSE [pc |-> "connect", exit |-> -1, printed |-> ""]

\* Client::ping, Client::shutdown, Client::send_image from the return of
\* send_message on, and main returning the Result: Ok(_) prints the success
\* line and ends with exit code 0, Err(e) ends with exit code 1.
client_finish(op, result) ==
    IF result.kind = "response"
    THEN [pc |-> "done", exit |-> 0,
          printed |-> CASE op = "ping" -> "Daemon is running"
                        [] op = "shutdown" -> "Shutdown signal sent to daemon"
                        [] op = "send_image" -> "Image sent to daemon successfully"]
    ELSE [pc |-> "done", exit |-> 1,
          printed |-> IF op = "send_image" THEN "Failed to send image to daemon"
                      ELSE result.why]

\* No client invocation.
NoClient ==
    [pc |-> "none", op |-> "", arg |-> "", pid |-> 0, buf |-> "", filename |-> "",
     message |-> NoMessage, wire |-> NoWire, connections |-> 0, bus_calls |-> 0,
     outcome |-> NoReplyYet, result |-> Pending, exit |-> -1, printed |-> ""]

\* ------------------------------------------------- the protocol functions
\* The filenames a LoadImage message can carry (any string).
Filenames == {"", "-", "a.png", "/home/u/a.png", "Shutdown", "Error: x"}

Messages ==
    {IpcMessage("Ping", ""), IpcMessage("Shutdown", "")} \cup
    { IpcMessage("LoadImage", f) : f \in Filenames }

\* The reasons an Error response can carry (any string).
Reasons == ReplyStrings \cup {<<"x">>, <<" ", "x">>, <<":">>}

Responses ==
    {IpcResponse("Ok", <<>>), IpcResponse("Pong", <<>>)} \cup
    { IpcResponse("Error", r) : r \in Reasons }

NoProto ==
    [step |-> "none", message |-> NoMessage, wire |-> NoWire,
     decoded |-> [ok |-> FALSE, msg |-> NoMessage, err |-> ""],
     response |-> NoResponse, str |-> <<>>, back |-> NoResponse,
     raw |-> <<>>, raw_decoded |-> NoResponse]

\* ------------------------------------------------------------ state
VARIABLES
    owner,       \* bus: the process owning com.gabm.satty, or NoProcess
    ownerFlags,  \* bus: the flags the owner requested the name with
    waiting,     \* bus: the queue of requesters waiting for the name
    pc,          \* per daemon process: Unregistered, NameRequested, Serving, Terminated
    name_result, \* per daemon: the reply of its RequestName (0: none yet)
    requests,    \* per daemon: how many RequestName calls it has issued
    rivalServing,\* per daemon: was another daemon Serving when the bus handled its request
    exported,    \* per daemon: the object /com/gabm/satty/IPC is registered on its connection
    server,      \* per daemon: its DaemonServer value and the registration_id slot in it
    exit_code,   \* per daemon: the code the process exited with (-1: running)
    err,         \* per daemon: the error DaemonServer::run returned ("" for none)
    loop,        \* per daemon: the sources of its main loop, in dispatch order
    outbox,      \* per daemon: replies handed to the connection, not yet written out
    channel,     \* per daemon: the commands sent on the application event channel
    client,      \* one invocation of the client (--ping-daemon, --shutdown-daemon,
                 \*   --send-to-daemon): its position and its local values
    tmpfiles,    \* the files of the temporary directory, as [path, content] records
    proto,       \* a message and a response taken through their wire encodings
    app,         \* per daemon: its App component: the root window is visible, how
                 \*   many commands of the channel update has handled, a RequestExit
                 \*   was handled, a RequestExit hid the visible window
    standalone,  \* an App started without --daemon: it runs, its window is
                 \*   visible, a RequestExit was handled
    calls        \* the bus calls made to com.gabm.satty, in the order issued:
                 \*   method, params: the call; target: the process the bus routed it to;
                 \*   st: inflight (on the target's main loop), returned (completed by
                 \*       the closure), delivered (reply at the caller), failed;
                 \*   handled: the handler closure was invoked for it;
                 \*   dispatches: how often the method_call closure ran for it;
                 \*   reply: the message the closure completed the invocation with;
                 \*   result: what send_message returned to the caller;
                 \*   acked: the daemons whose Shutdown reply a caller had received
                 \*       when the call was issued;
                 \*   sentBefore: the number of commands on the target's application
                 \*       channel when the call was dispatched;
                 \*   afterExit: the target had handled a RequestExit of its GUI when
                 \*       the call was issued;
                 \*   expiredIn: the st the call was in when the caller's 5000 ms
                 \*       timeout expired ("" while it has not)

vars == <<owner, ownerFlags, waiting, pc, name_result, requests, rivalServing,
          exported, server, exit_code, err, loop, outbox, channel, calls>>

clientVars == <<client, tmpfiles>>

appVars == <<app, standalone>>

allVars == <<vars, clientVars, proto, appVars>>

busVars == <<owner, ownerFlags, waiting>>

startupVars == <<name_result, requests, rivalServing, exported, server>>

\* The bus and the daemon processes before any daemon is launched.
DaemonInit ==
    /\ owner = NoProcess
    /\ ownerFlags = 0
    /\ waiting = <<>>
    /\ pc = [d \in Daemons |-> "Unregistered"]
    /\ name_result = [d \in Daemons |-> 0]
    /\ requests = [d \in Daemons |-> 0]
    /\ rivalServing = [d \in Daemons |-> FALSE]
    /\ exported = [d \in Daemons |-> FALSE]
    /\ server = [d \in Daemons |-> NoServer]
    /\ exit_code = [d \in Daemons |-> -1]
    /\ err = [d \in Daemons |-> ""]
    /\ loop = [d \in Daemons |-> <<>>]
    /\ outbox = [d \in Daemons |-> <<>>]
    /\ channel = [d \in Daemons |-> <<>>]
    /\ calls = <<>>
    /\ app = [d \in Daemons |-> App_init(TRUE)]
    /\ standalone = App_init(FALSE)

Init ==
    /\ DaemonInit
    /\ client = NoClient
    /\ tmpfiles = {}
    /\ proto = NoProto

\* std::process::exit(code) in daemon process d: the main loop and the
\* unwritten replies are gone with the process, the bus drops the connection
\* (releasing the name) and answers every call the process still owed a reply
\* with the error NoReply.
ProcessExit(d, code, text) ==
    LET b == BusRelease(owner, ownerFlags, waiting, d)
    IN  /\ pc' = [pc EXCEPT ![d] = "Terminated"]
        /\ exit_code' = [exit_code EXCEPT ![d] = code]
        /\ err' = [err EXCEPT ![d] = text]
        /\ loop' = [loop EXCEPT ![d] = <<>>]
        /\ outbox' = [outbox EXCEPT ![d] = <<>>]
        /\ owner' = b.owner
        /\ ownerFlags' = b.ownerFlags
        /\ waiting' = b.waiting
        /\ calls' = [c \in DOMAIN calls |->
                        IF calls[c].target = d /\ calls[c].st \in {"inflight", "returned"}
                        THEN [calls[c] EXCEPT
                                 !.st = "failed",
                                 !.result = IF @.kind = "pending" THEN Failed("NoReply") ELSE @]
                        ELSE calls[c]]

\* Daemon processes are numbered in the order they are launched: d starts
\* DaemonServer::run once every process before it has started.
Launched(d) == \A e \in Daemons : e < d => pc[e] # "Unregistered"

\* DaemonServer::run: gio::bus_get_future fails
\* ("Failed to connect to session bus"); App::init exits with code 1.
BusConnectFails(d) ==
    /\ pc[d] = "Unregistered"
    /\ Launched(d)
    /\ ProcessExit(d, 1, "Failed to connect to session bus")
    /\ UNCHANGED <<startupVars, channel>>
    /\ UNCHANGED <<clientVars, proto, appVars>>

\* DaemonServer::run: the RequestName call, and the bus executing it.
RequestName(d) ==
    /\ pc[d] = "Unregistered"
    /\ Launched(d)
    /\ LET b == BusRequestName(owner, ownerFlags, waiting, d, RequestNameFlags)
       IN  /\ owner' = b.owner
           /\ ownerFlags' = b.ownerFlags
           /\ waiting' = b.waiting
           /\ name_result' = [name_result EXCEPT ![d] = b.reply]
    /\ requests' = [requests EXCEPT ![d] = @ + 1]
    /\ rivalServing' = [rivalServing EXCEPT ![d] = \E e \in Daemons \ {d} : pc[e] = "Serving"]
    /\ server' = [server EXCEPT ![d] = DaemonServer_new]
    /\ pc' = [pc EXCEPT ![d] = "NameRequested"]
    /\ UNCHANGED <<exported, exit_code, err, loop, outbox, channel, calls>>
    /\ UNCHANGED <<clientVars, proto, appVars>>

\* DaemonServer::run from the reply of RequestName on: the match on
\* name_result, then register_object; on Err App::init exits with code 1.
\* run takes the DaemonServer by value: the server is dropped when run returns.
NameReply(d) ==
    /\ pc[d] = "NameRequested"
    /\ LET m == name_result_match(name_result[d])
       IN  IF m.proceed
           THEN /\ exported' = [exported EXCEPT ![d] = TRUE]
                /\ server' = [server EXCEPT ![d] = run_returns(register_object(@))]
                /\ pc' = [pc EXCEPT ![d] = "Serving"]
                /\ UNCHANGED <<busVars, exit_code, err, loop, outbox, calls>>
           ELSE /\ ProcessExit(d, 1, m.text)
                /\ server' = [server EXCEPT ![d] = run_returns(@)]
                /\ UNCHANGED exported
    /\ UNCHANGED <<name_result, requests, rivalServing, channel>>
    /\ UNCHANGED <<clientVars, proto, appVars>>

\* A bus client calls a method of com.gabm.satty at /com/gabm/satty/IPC. The
\* bus routes the call to the owner of the name; with no owner the call
\* fails (ServiceUnknown), and an owner that has not registered the object
\* yet answers with an error (UnknownObject). A routed call becomes a
\* source on the owner's main loop.
IssueCall(req) ==
    /\ Len(calls) < MaxCalls
    /\ LET c      == Len(calls) + 1
           routed == owner # NoProcess /\ exported[owner]
           acked  == { calls[i].target : i \in { j \in DOMAIN calls :
                          /\ calls[j].method = "Shutdown"
                          /\ calls[j].result.kind = "response" } }
       IN  /\ calls' = Append(calls,
                  [method  |-> req.method,
                   params  |-> req.params,
                   target  |-> owner,
                   st      |-> IF routed THEN "inflight" ELSE "failed",
                   handled |-> FALSE,
                   dispatches |-> 0,
                   reply   |-> NoReplyYet,
                   result  |-> IF routed THEN Pending
                               ELSE IF owner = NoProcess THEN Failed("ServiceUnknown")
                               ELSE Failed("UnknownObject"),
                   acked   |-> acked,
                   sentBefore |-> 0,
                   afterExit |-> routed /\ app[owner].exit_requested,
                   expiredIn |-> ""])
           /\ loop' = IF routed
                      THEN [loop EXCEPT ![owner] = Append(@, Task("method_call", c, NoMessage))]
                      ELSE loop
    /\ UNCHANGED <<busVars, pc, startupVars, exit_code, err, outbox, channel>>
    /\ UNCHANGED <<clientVars, proto, appVars>>

\* The main loop of d dispatches an incoming call: the method_call closure.
DispatchCall(d) ==
    /\ pc[d] = "Serving"
    /\ loop[d] # <<>>
    /\ Head(loop[d]).kind = "method_call"
    /\ LET c == Head(loop[d]).call
           r == method_call(calls[c].method, calls[c].params, c)
       IN  /\ loop' = [loop EXCEPT ![d] = Tail(@) \o r.spawned]
           /\ outbox' = [outbox EXCEPT ![d] = Append(@, c)]
           /\ calls' = [calls EXCEPT ![c].st = "returned",
                                     ![c].reply = r.reply,
                                     ![c].handled = r.handled,
                                     ![c].dispatches = @ + 1,
                                     ![c].sentBefore = Len(channel[d])]
    /\ UNCHANGED <<busVars, pc, startupVars, exit_code, err, channel>>
    /\ UNCHANGED <<clientVars, proto, appVars>>

\* The main loop of d runs the future spawned by the Shutdown arm.
ExitTask(d) ==
    /\ pc[d] = "Serving"
    /\ loop[d] # <<>>
    /\ Head(loop[d]).kind = "exit"
    /\ ProcessExit(d, 0, "")
    /\ UNCHANGED <<startupVars, channel>>
    /\ UNCHANGED <<clientVars, proto, appVars>>

\* The main loop of d runs the future spawned by the _ arm: handle_message.
HandleMessageTask(d) ==
    /\ pc[d] = "Serving"
    /\ loop[d] # <<>>
    /\ Head(loop[d]).kind = "handle_message"
    /\ LET t == Head(loop[d])
       IN  loop' = [loop EXCEPT ![d] = Tail(@) \o handle_message(t.message, t.call)]
    /\ UNCHANGED <<busVars, pc, startupVars, exit_code, err, outbox, channel, calls>>
    /\ UNCHANGED <<clientVars, proto, appVars>>

\* The main loop of d runs the future spawned by handle_message: the decode
\* and the commands to the application.
LoadTask(d) ==
    /\ pc[d] = "Serving"
    /\ loop[d] # <<>>
    /\ Head(loop[d]).kind = "load_pixbuf"
    /\ LET t == Head(loop[d])
       IN  channel' = [channel EXCEPT ![d] = @ \o load_commands(t.message.filename, t.call)]
    /\ loop' = [loop EXCEPT ![d] = Tail(@)]
    /\ UNCHANGED <<busVars, pc, startupVars, exit_code, err, outbox, calls>>
    /\ UNCHANGED <<clientVars, proto, appVars>>

\* One iteration of the main loop of d.
RunLoop(d) ==
    \/ DispatchCall(d)
    \/ ExitTask(d)
    \/ HandleMessageTask(d)
    \/ LoadTask(d)

\* The connection's writer thread of d writes the oldest queued reply to the
\* socket; the bus passes it to the caller, whose send_message returns.
Flush(d) ==
    /\ pc[d] = "Serving"
    /\ outbox[d] # <<>>
    /\ LET c == Head(outbox[d])
       IN  calls' = [calls EXCEPT ![c].st = "delivered",
                                 ![c].result = IF @.kind = "pending"
                                               THEN send_message_result(calls[c].reply)
                                               ELSE @]
    /\ outbox' = [outbox EXCEPT ![d] = Tail(@)]
    /\ UNCHANGED <<busVars, pc, startupVars, exit_code, err, loop, channel>>
    /\ UNCHANGED <<clientVars, proto, appVars>>

\* ----------------------------------------------- one client invocation
\* A client process is started with one of the three client options.
ClientInit ==
    /\ DaemonInit
    /\ proto = NoProto
    /\ \E op \in ClientOps, arg \in ClientArgs, pid \in ClientPids :
          /\ (op # "send_image") => (arg = NoFilename)
          /\ client = [NoClient EXCEPT !.pc = "main", !.op = op, !.arg = arg, !.pid = pid]
    /\ tmpfiles \in { {}, {[path |-> temp_path(4242), content |-> "stale"]} }

\* The client process ends with an error before send_message was called.
ClientFails(text) ==
    client' = [client EXCEPT !.pc = "done", !.exit = 1, !.printed = text]

\* main: the client option selects the operation; --send-to-daemon without
\* --filename is an error.
ClientMain ==
    /\ client.pc = "main"
    /\ CASE client.op = "ping" ->
               client' = [client EXCEPT !.message = IpcMessage("Ping", ""), !.pc = "connect"]
         [] client.op = "shutdown" ->
               client' = [client EXCEPT !.message = IpcMessage("Shutdown", ""), !.pc = "connect"]
         [] client.op = "send_image" ->
               IF client.arg = NoFilename
               THEN ClientFails("--filename is required when using --send-to-daemon")
               ELSE IF client.arg = "-"
                    THEN client' = [client EXCEPT !.pc = "read_stdin"]
                    ELSE client' = [client EXCEPT !.pc = "canonicalize"]
    /\ UNCHANGED <<vars, tmpfiles, proto, appVars>>

\* send_image("-"): io::stdin().lock().read_to_end(&mut buf)
ReadStdin(r) ==
    /\ client.pc = "read_stdin"
    /\ IF r.ok
       THEN client' = [client EXCEPT !.buf = r.data, !.pc = "write_tmp"]
       ELSE ClientFails("Failed to read image from stdin")
    /\ UNCHANGED <<vars, tmpfiles, proto, appVars>>

\* send_image("-"): fs::write(&temp_path, buf), then the LoadImage message
\* with the path of the temporary file.
WriteTmp(ok) ==
    /\ client.pc = "write_tmp"
    /\ IF ok
       THEN /\ tmpfiles' = fs_write(tmpfiles, temp_path(client.pid), client.buf)
            /\ client' = [client EXCEPT
                             !.filename = temp_path(client.pid),
                             !.message = IpcMessage("LoadImage", temp_path(client.pid)),
                             !.pc = "connect"]
       ELSE /\ ClientFails("Failed to write temporary file")
            /\ UNCHANGED tmpfiles
    /\ UNCHANGED <<vars, proto, appVars>>

\* send_image(filename): fs::canonicalize(filename), then the LoadImage
\* message with the resolved path.
Canonicalize ==
    /\ client.pc = "canonicalize"
    /\ LET r == canonicalize(client.arg)
       IN  IF r.ok
           THEN client' = [client EXCEPT
                              !.filename = r.path,
                              !.message = IpcMessage("LoadImage", r.path),
                              !.pc = "connect"]
           ELSE ClientFails("Failed to resolve image file path")
    /\ UNCHANGED <<vars, tmpfiles, proto, appVars>>

\* IpcClient::send_message: gio::bus_get_future, then the message is encoded
\* and call_future issues the method call.
Connect(ok) ==
    /\ client.pc = "connect"
    /\ IF ok
       THEN client' = [client EXCEPT
                          !.connections = @ + 1,
                          !.wire = encode_message(client.message),
                          !.bus_calls = @ + 1,
                          !.pc = "call"]
       ELSE client' = [client EXCEPT
                          !.result = Failed("Failed to connect to session bus"),
                          !.pc = "return"]
    /\ UNCHANGED <<vars, tmpfiles, proto, appVars>>

\* IpcClient::send_message: call_future completes with a reply, an error or
\* the timeout; send_message returns.
CallReturns(outcome) ==
    /\ client.pc = "call"
    /\ client' = [client EXCEPT
                     !.outcome = outcome,
                     !.result = send_message_result(outcome),
                     !.pc = "return"]
    /\ UNCHANGED <<vars, tmpfiles, proto, appVars>>

\* The client operation and main return; the process exits.
ClientReturn ==
    /\ client.pc = "return"
    /\ LET f == client_finish(client.op, client.result)
       IN  client' = [client EXCEPT !.pc = f.pc, !.exit = f.exit, !.printed = f.printed]
    /\ UNCHANGED <<vars, tmpfiles, proto, appVars>>

ClientNext ==
    \/ ClientMain
    \/ \E r \in StdinReads : ReadStdin(r)
    \/ \E ok \in BOOLEAN : WriteTmp(ok)
    \/ Canonicalize
    \/ \E ok \in BOOLEAN : Connect(ok)
    \/ \E outcome \in CallOutcomes : CallReturns(outcome)
    \/ ClientReturn

ClientSpec == ClientInit /\ [][ClientNext]_allVars

\* ------------------------------------- the wire encodings, both directions
\* A message, a response and a reply string are drawn.
ProtoInit ==
    /\ DaemonInit
    /\ client = NoClient
    /\ tmpfiles = {}
    /\ \E m \in Messages, r \in Responses, raw \in ReplyStrings :
          proto = [NoProto EXCEPT !.step = "drawn", !.message = m,
                                  !.response = r, !.raw = raw]

\* The sender's side: IpcClient::send_message encodes the message,
\* IpcResponse::to_variant the response.
ProtoEncode ==
    /\ proto.step = "drawn"
    /\ proto' = [proto EXCEPT !.wire = encode_message(proto.message),
                              !.str = to_variant(proto.response),
                              !.step = "encoded"]
    /\ UNCHANGED <<vars, clientVars, appVars>>

\* The receiver's side: IpcMessage::from_method_call decodes the call, the
\* client decodes the reply strings.
ProtoDecode ==
    /\ proto.step = "encoded"
    /\ proto' = [proto EXCEPT
                    !.decoded = from_method_call(proto.wire.method, proto.wire.params),
                    !.back = decode_response(proto.str),
                    !.raw_decoded = decode_response(proto.raw),
                    !.step = "decoded"]
    /\ UNCHANGED <<vars, clientVars, appVars>>

ProtoNext ==
    \/ ProtoEncode
    \/ ProtoDecode

ProtoSpec == ProtoInit /\ [][ProtoNext]_allVars

Next ==
    \/ \E d \in Daemons : BusConnectFails(d)
    \/ \E d \in Daemons : RequestName(d)
    \/ \E d \in Daemons : NameReply(d)
    \/ \E req \in Requests : IssueCall(req)
    \/ \E d \in Daemons : DispatchCall(d)
    \/ \E d \in Daemons : ExitTask(d)
    \/ \E d \in Daemons : HandleMessageTask(d)
    \/ \E d \in Daemons : LoadTask(d)
    \/ \E d \in Daemons : Flush(d)

Spec == Init /\ [][Next]_vars

\* The glib main loop of a running daemon keeps iterating while it has
\* sources to dispatch.
FairSpec ==
    /\ Spec
    /\ \A d \in Daemons : WF_vars(RunLoop(d))

\* The 5000 ms timeout of the caller of call c expires before a reply has
\* reached it.
Timeout(c) ==
    /\ c \in DOMAIN calls
    /\ calls[c].result.kind = "pending"
    /\ calls[c].st \in {"inflight", "returned"}
    /\ LET t == call_timeout(calls[c])
           d == calls[c].target
           keep(q) == SelectSeq(q, LAMBDA x : x # c)
           others(q) == SelectSeq(q, LAMBDA x : x.call # c)
       IN  /\ calls' = [calls EXCEPT ![c] = IF t.cancel THEN [t.call EXCEPT !.st = "failed"]
                                            ELSE t.call]
           /\ loop' = IF t.cancel THEN [loop EXCEPT ![d] = others(@)] ELSE loop
           /\ outbox' = IF t.cancel THEN [outbox EXCEPT ![d] = keep(@)] ELSE outbox
    /\ UNCHANGED <<busVars, pc, startupVars, exit_code, err, channel>>
    /\ UNCHANGED <<clientVars, proto, appVars>>

\* The bus, the daemons and callers whose timeout may expire.
TimeoutNext ==
    \/ Next
    \/ \E c \in 1 .. MaxCalls : Timeout(c)

TimeoutSpec == Init /\ [][TimeoutNext]_vars

FairTimeoutSpec ==
    /\ TimeoutSpec
    /\ \A d \in Daemons : WF_vars(RunLoop(d))

\* The App of daemon d handles the next command of its channel.
AppUpdate(d) ==
    /\ pc[d] = "Serving"
    /\ app[d].applied < Len(channel[d])
    /\ app' = [app EXCEPT ![d] =
                  [update(@, channel[d][@.applied + 1].cmd) EXCEPT !.applied = @ + 1]]
    /\ UNCHANGED <<vars, clientVars, proto, standalone>>

\* The sketch board of daemon d sends RequestExit (the user closes the
\* annotation view); after main_application().quit() the main loop ends and
\* main returns Ok.
GuiRequestExit(d) ==
    /\ pc[d] = "Serving"
    /\ LET a == update(app[d], "RequestExit")
       IN  /\ app' = [app EXCEPT ![d] = a]
           /\ IF a.running
              THEN UNCHANGED vars
              ELSE /\ ProcessExit(d, 0, "")
                   /\ UNCHANGED <<startupVars, channel>>
    /\ UNCHANGED <<clientVars, proto, standalone>>

\* The sketch board of the App started without --daemon sends RequestExit.
StandaloneRequestExit ==
    /\ standalone.running
    /\ standalone' = update(standalone, "RequestExit")
    /\ UNCHANGED <<vars, clientVars, proto, app>>

\* The bus, the daemons with their Apps, the callers, and a standalone App.
AppNext ==
    \/ Next
    \/ \E d \in Daemons : AppUpdate(d)
    \/ \E d \in Daemons : GuiRequestExit(d)
    \/ StandaloneRequestExit

AppSpec == Init /\ [][AppNext]_allVars

\* ------------------------------------------------------------ claims
Serving == { d \in Daemons : pc[d] = "Serving" }

\* C1: at most one daemon serves at a time and a serving daemon owns the bus
\* name; a daemon whose RequestName the bus handled while another daemon was
\* Serving got a conflict reply (2 or 3), has not registered the service
\* object and is not Serving.
C1_SingleDaemon ==
    /\ Cardinality(Serving) <= 1
    /\ \A d \in Serving : owner = d
    /\ \A d \in Daemons :
          rivalServing[d] =>
             /\ name_result[d] \in {2, 3}
             /\ ~exported[d]
             /\ pc[d] # "Serving"

\* C1 witness: a second daemon was refused while the first one serves.
C1_Witness ==
    \E d \in Daemons :
       /\ rivalServing[d]
       /\ pc[d] = "Terminated"
       /\ \E e \in Daemons \ {d} : pc[e] = "Serving" /\ owner = e

\* C2: a daemon whose name request returned a conflict (2 or 3) never
\* registers the object and never serves; once DaemonServer::run has returned
\* its error is the one of the reply (2: already running, 3: name already
\* exists) and the process has exited with code 1; it issued RequestName
\* exactly once, and no daemon ever issues it twice.
C2_ConflictAborts ==
    \A d \in Daemons :
       /\ requests[d] <= 1
       /\ name_result[d] \in {2, 3} =>
             /\ requests[d] = 1
             /\ ~exported[d]
             /\ pc[d] \in {"NameRequested", "Terminated"}
             /\ pc[d] = "Terminated" =>
                   /\ exit_code[d] = 1
                   /\ name_result[d] = 2 => err[d] = "Daemon already running on DBus"
                   /\ name_result[d] = 3 => err[d] = "Name already exists on DBus"

\* C2 witness: a daemon has exited on a conflict reply.
C2_Witness ==
    \E d \in Daemons :
       /\ name_result[d] = 3
       /\ pc[d] = "Terminated"
       /\ exit_code[d] = 1
       /\ err[d] = "Name already exists on DBus"

\* C3: a Shutdown call the serving daemon dispatched never fails at the
\* caller because the daemon disappeared (NoReply) in place of its Ok.
C3_ShutdownOkBeforeExit ==
    \A c \in DOMAIN calls :
       (calls[c].method = "Shutdown" /\ calls[c].handled) =>
          calls[c].result # Failed("NoReply")

\* A caller has received the reply Ok to a Shutdown call made to daemon d.
ShutdownAcked(d) ==
    \E c \in DOMAIN calls :
       /\ calls[c].method = "Shutdown"
       /\ calls[c].target = d
       /\ calls[c].result = Responded(IpcResponse("Ok", <<>>))

\* Call c is a Ping issued after a caller had received the Shutdown reply of
\* daemon d, and the bus found d or nobody as the owner of the name.
PingAfterAck(c, d) ==
    /\ c \in DOMAIN calls
    /\ calls[c].method = "Ping"
    /\ d \in calls[c].acked
    /\ calls[c].target \in {d, NoProcess}

\* C4: once a caller has received Ok for a Shutdown of daemon d, d eventually
\* terminates with exit code 0; a Ping issued after that acknowledgment (to d,
\* or while nobody owns the name) is never handled nor answered, and it has
\* failed at the caller by the time d has terminated.
C4_ShutdownTerminates ==
    /\ \A d \in Daemons :
          ShutdownAcked(d) ~> (pc[d] = "Terminated" /\ exit_code[d] = 0)
    /\ [](\A d \in Daemons : \A c \in DOMAIN calls :
            PingAfterAck(c, d) =>
               /\ ~calls[c].handled
               /\ calls[c].result.kind # "response"
               /\ pc[d] = "Terminated" => calls[c].result.kind = "failure")

\* C4 witness: the daemon has exited with code 0 after its Shutdown reply was
\* received, and a Ping issued after that reply has failed.
C4_Witness ==
    \E d \in Daemons : \E c \in DOMAIN calls :
       /\ ShutdownAcked(d)
       /\ pc[d] = "Terminated"
       /\ exit_code[d] = 0
       /\ PingAfterAck(c, d)
       /\ calls[c].target = d
       /\ calls[c].result = Failed("NoReply")

\* ---- helpers of the claims about dispatch
\* Call c is a LoadImage call that carries one string, as the interface
\* declares it.
IsLoadImage(c) ==
    /\ calls[c].method = "LoadImage"
    /\ Len(calls[c].params) = 1
    /\ calls[c].params[1].ty = "s"

\* The filename a LoadImage call carries.
FilenameOf(c) == calls[c].params[1].v

\* Call c is malformed: a method the interface does not have, or LoadImage
\* without its string argument.
Malformed(c) ==
    \/ calls[c].method \notin {"LoadImage", "Shutdown", "Ping"}
    \/ calls[c].method = "LoadImage" /\ ~IsLoadImage(c)

\* The closure has completed call c (return_value or return_gerror).
Completed(c) == calls[c].st \in {"returned", "delivered"} \/ calls[c].reply.kind # "none"

\* This step is the dispatch of call c: the closure completes the invocation.
Returns(c) == calls[c].st = "inflight" /\ calls'[c].st = "returned"

\* This step runs the load future at the head of the main loop of d.
RunsLoad(d) ==
    /\ loop[d] # <<>>
    /\ Head(loop[d]).kind = "load_pixbuf"
    /\ loop'[d] = Tail(loop[d])
    /\ pc'[d] = "Serving"

\* The commands on the application channel sent for call c, in order.
CommandsFor(c) ==
    IF calls[c].target \in Daemons
    THEN SelectSeq(channel[calls[c].target], LAMBDA a : a.call = c)
    ELSE <<>>

ValueReply(str) == [kind |-> "value", body |-> str, error |-> ""]

\* A Shutdown call has been dispatched by daemon d.
ShutdownHandled(d) ==
    \E c \in DOMAIN calls :
       calls[c].method = "Shutdown" /\ calls[c].target = d /\ calls[c].handled

\* C5: the dispatch of a Ping completes the call with the reply Pong in the
\* same step, invokes the handler, and leaves the main loop without any new
\* task, the application channel without any new command and the daemon state
\* as it was; a delivered Ping reply decodes to Pong.
C5_PingNoSideEffects ==
    /\ [][\A c \in DOMAIN calls :
            (Returns(c) /\ calls[c].method = "Ping") =>
               LET d == calls[c].target
               IN  /\ calls'[c].reply = ValueReply(<<"P", "o", "n", "g">>)
                   /\ calls'[c].handled
                   /\ outbox'[d] = Append(outbox[d], c)
                   /\ loop'[d] = Tail(loop[d])
                   /\ channel' = channel
                   /\ pc' = pc
                   /\ exported' = exported
                   /\ exit_code' = exit_code
                   /\ owner' = owner]_vars
    /\ [](\A c \in DOMAIN calls :
            (calls[c].method = "Ping" /\ calls[c].st = "delivered") =>
               calls[c].result = Responded(IpcResponse("Pong", <<>>)))

\* C5 witness: a Ping was answered Pong and nothing is scheduled or sent.
C5_Witness ==
    \E c \in DOMAIN calls :
       /\ calls[c].method = "Ping"
       /\ calls[c].st = "delivered"
       /\ calls[c].result = Responded(IpcResponse("Pong", <<>>))
       /\ loop[calls[c].target] = <<>>
       /\ channel[calls[c].target] = <<>>

\* C6: the dispatch of a LoadImage call with a string filename completes the
\* call with the reply Ok, whether or not the file decodes, sends no command
\* and schedules exactly one task for the call; commands reach the
\* application channel only in a step that runs a load task from the head of
\* the main loop, and only for calls whose reply was already returned.
C6_LoadImageAckThenDefer ==
    /\ [][\A c \in DOMAIN calls :
            (Returns(c) /\ IsLoadImage(c)) =>
               LET d == calls[c].target
               IN  /\ calls'[c].reply = ValueReply(<<"O", "k">>)
                   /\ calls'[c].handled
                   /\ channel' = channel
                   /\ loop'[d] = Append(Tail(loop[d]),
                                         Task("handle_message", c,
                                              IpcMessage("LoadImage", FilenameOf(c))))]_vars
    /\ [][\A d \in Daemons : channel'[d] # channel[d] => RunsLoad(d)]_vars
    /\ [](\A d \in Daemons : \A i \in DOMAIN channel[d] :
            LET c == channel[d][i].call
            IN  /\ c \in DOMAIN calls
                /\ calls[c].target = d
                /\ calls[c].handled
                /\ calls[c].st # "inflight"
                /\ calls[c].reply = ValueReply(<<"O", "k">>))
    /\ [](\A c \in DOMAIN calls :
            (IsLoadImage(c) /\ calls[c].st = "delivered") =>
               calls[c].result = Responded(IpcResponse("Ok", <<>>)))

\* C6 witness: a LoadImage of a file that does not decode was answered Ok and
\* its decode ran later, in a task.
C6_Witness ==
    \E c \in DOMAIN calls :
       /\ IsLoadImage(c)
       /\ ~load_pixbuf_from_file(FilenameOf(c))
       /\ calls[c].result = Responded(IpcResponse("Ok", <<>>))
       /\ CommandsFor(c) # <<>>

\* C7: the load task of a LoadImage call whose file decodes appends to the
\* application channel LoadNewImage directly followed by ShowWindow; the
\* commands ever sent for such a call are none (task not run yet) or exactly
\* that pair, adjacent on the channel, and never HideWindow.
C7_LoadSuccessCommands ==
    /\ [][\A d \in Daemons :
            (RunsLoad(d) /\ load_pixbuf_from_file(Head(loop[d]).message.filename)) =>
               LET c == Head(loop[d]).call
               IN  channel'[d] = channel[d] \o <<AppInput("LoadNewImage", c),
                                                 AppInput("ShowWindow", c)>>]_vars
    /\ [](\A c \in DOMAIN calls :
            (IsLoadImage(c) /\ load_pixbuf_from_file(FilenameOf(c))) =>
               /\ CommandsFor(c) \in { <<>>, <<AppInput("LoadNewImage", c),
                                               AppInput("ShowWindow", c)>> }
               /\ \A d \in Daemons : \A i \in DOMAIN channel[d] :
                     channel[d][i] = AppInput("LoadNewImage", c) =>
                        /\ i + 1 <= Len(channel[d])
                        /\ channel[d][i + 1] = AppInput("ShowWindow", c))

\* C7 witness: the two commands of a successful load are on the channel.
C7_Witness ==
    \E c \in DOMAIN calls :
       /\ IsLoadImage(c)
       /\ load_pixbuf_from_file(FilenameOf(c))
       /\ CommandsFor(c) = <<AppInput("LoadNewImage", c), AppInput("ShowWindow", c)>>

\* Call c was dispatched by its daemon after the HideWindow of a failed load
\* had been sent.
AfterFailedLoad(c) ==
    /\ calls[c].target \in Daemons
    /\ Completed(c)
    /\ \E i \in 1 .. calls[c].sentBefore :
          /\ i <= Len(channel[calls[c].target])
          /\ channel[calls[c].target][i].cmd = "HideWindow"

\* C8: the load task of a LoadImage call whose file does not decode appends
\* exactly one HideWindow and changes nothing else of the daemon (state,
\* registration, name ownership, queued tasks and replies); the commands ever
\* sent for such a call are none or that one HideWindow; a daemon that has
\* sent commands and dispatched no Shutdown is still Serving; and a Ping or
\* LoadImage dispatched after the HideWindow is handled and answered (Pong,
\* Ok).
C8_LoadFailureHides ==
    /\ [][\A d \in Daemons :
            (RunsLoad(d) /\ ~load_pixbuf_from_file(Head(loop[d]).message.filename)) =>
               /\ channel'[d] = Append(channel[d], AppInput("HideWindow", Head(loop[d]).call))
               /\ pc' = pc
               /\ exported' = exported
               /\ exit_code' = exit_code
               /\ owner' = owner
               /\ outbox' = outbox]_vars
    /\ [](\A c \in DOMAIN calls :
            (IsLoadImage(c) /\ ~load_pixbuf_from_file(FilenameOf(c))) =>
               CommandsFor(c) \in { <<>>, <<AppInput("HideWindow", c)>> })
    /\ [](\A d \in Daemons :
            (channel[d] # <<>> /\ ~ShutdownHandled(d)) =>
               pc[d] = "Serving" /\ exported[d] /\ owner = d)
    /\ [](\A c \in DOMAIN calls :
            AfterFailedLoad(c) =>
               /\ calls[c].method = "Ping" =>
                     calls[c].handled /\ calls[c].reply = ValueReply(<<"P", "o", "n", "g">>)
               /\ IsLoadImage(c) =>
                     calls[c].handled /\ calls[c].reply = ValueReply(<<"O", "k">>))

\* C8 witness: a load failed, its HideWindow is on the channel, and a Ping
\* dispatched afterwards was answered Pong at the caller.
C8_Witness ==
    \E c1 \in DOMAIN calls : \E c2 \in DOMAIN calls :
       /\ IsLoadImage(c1)
       /\ ~load_pixbuf_from_file(FilenameOf(c1))
       /\ CommandsFor(c1) = <<AppInput("HideWindow", c1)>>
       /\ calls[c2].method = "Ping"
       /\ calls[c2].target = calls[c1].target
       /\ AfterFailedLoad(c2)
       /\ calls[c2].result = Responded(IpcResponse("Pong", <<>>))

\* C9: a call whose decoding fails is completed with the reply string
\* "Error: <reason>", which the caller decodes to the Error response.
C9_DecodeErrorIsErrorResponse ==
    \A c \in DOMAIN calls :
       (Completed(c) /\ Malformed(c)) =>
          /\ calls[c].reply.kind = "value"
          /\ starts_with(calls[c].reply.body, <<"E", "r", "r", "o", "r", ":", " ">>)
          /\ calls[c].st = "delivered" =>
                /\ calls[c].result.kind = "response"
                /\ calls[c].result.resp.tag = "Error"

\* C10: the dispatch of a malformed call (unknown method, LoadImage without a
\* string argument) does not invoke the handler, schedules no task, sends no
\* command and leaves the daemon state, registration, name ownership and
\* process alive; no task or command ever exists for a malformed call, and a
\* daemon that registered and dispatched no Shutdown is Serving and running.
C10_MalformedChangesNothing ==
    /\ [][\A c \in DOMAIN calls :
            (Returns(c) /\ Malformed(c)) =>
               LET d == calls[c].target
               IN  /\ ~calls'[c].handled
                   /\ loop'[d] = Tail(loop[d])
                   /\ channel' = channel
                   /\ pc' = pc
                   /\ exported' = exported
                   /\ exit_code' = exit_code
                   /\ owner' = owner]_vars
    /\ [](\A c \in DOMAIN calls :
            Malformed(c) =>
               /\ ~calls[c].handled
               /\ \A d \in Daemons :
                     /\ \A i \in DOMAIN channel[d] : channel[d][i].call # c
                     /\ \A i \in DOMAIN loop[d] :
                           loop[d][i].call = c => loop[d][i].kind = "method_call")
    /\ [](\A d \in Daemons :
            (exported[d] /\ ~ShutdownHandled(d)) =>
               pc[d] = "Serving" /\ exit_code[d] = -1)

\* C10 witness: a malformed call was rejected and the same daemon, still
\* Serving, answered a later Ping.
C10_Witness ==
    \E c1 \in DOMAIN calls : \E c2 \in DOMAIN calls :
       /\ Malformed(c1)
       /\ calls[c1].st = "delivered"
       /\ c1 < c2
       /\ calls[c2].method = "Ping"
       /\ calls[c2].target = calls[c1].target
       /\ calls[c2].result = Responded(IpcResponse("Pong", <<>>))
       /\ pc[calls[c1].target] = "Serving"

\* C11: send_message fails only when the call got no reply string (no owner
\* of the name, no exported object, an error reply, the daemon gone) and
\* returns a response only from a delivered reply string; a serving daemon
\* that rejects a call is reported to the caller as the Error response and
\* not as a failure, the outcome a caller gets when no daemon is running.
C11_RejectionIsResponse ==
    \A c \in DOMAIN calls :
       /\ calls[c].result.kind = "response" =>
             /\ calls[c].st = "delivered"
             /\ calls[c].reply.kind = "value"
       /\ calls[c].target = NoProcess =>
             /\ calls[c].result.kind = "failure"
             /\ calls[c].dispatches = 0
       /\ (Malformed(c) /\ calls[c].st = "delivered") =>
             /\ calls[c].result.kind # "failure"
             /\ calls[c].result = Responded(IpcResponse("Error", calls[c].result.resp.msg))

\* C12: a client operation (ping, shutdown, send_image) that has ended has
\* exit code 0 only if send_message returned a response other than Error, and
\* a non-zero exit code whenever send_message failed or returned the Error
\* response.
C12_ExitCodeTellsOutcome ==
    client.pc = "done" =>
       /\ client.exit = 0 =>
             /\ client.result.kind = "response"
             /\ client.result.resp.tag # "Error"
       /\ client.result.kind = "failure" => client.exit # 0
       /\ (client.result.kind = "response" /\ client.result.resp.tag = "Error") =>
             client.exit # 0

\* C13: for every message (LoadImage with any filename, Shutdown, Ping) the
\* (method, payload) pair the client produces is decoded by from_method_call
\* to the same message.
C13_MessageRoundTrip ==
    /\ proto.step \in {"encoded", "decoded"} =>
          LET back == from_method_call(proto.wire.method, proto.wire.params)
          IN  back.ok /\ back.msg = proto.message
    /\ proto.step = "decoded" =>
          /\ proto.decoded.ok
          /\ proto.decoded.msg = proto.message

\* C13 witness: a LoadImage message with an empty filename has been encoded
\* and decoded again.
C13_Witness ==
    /\ proto.step = "decoded"
    /\ proto.message = IpcMessage("LoadImage", "")
    /\ proto.wire = [method |-> "LoadImage", params |-> <<Arg("s", "")>>]
    /\ proto.decoded.msg = IpcMessage("LoadImage", "")

\* C14: the response encoding and decoding are symmetric: Ok is sent as
\* "Ok", Pong as "Pong", Error(reason) as "Error: <reason>"; the client
\* decodes the encoding of every response (any reason) to that response; and
\* the client decodes a reply string to Ok only if the string is "Ok".
C14_ResponseSymmetric ==
    proto.step = "decoded" =>
       /\ proto.response.tag = "Ok" => proto.str = <<"O", "k">>
       /\ proto.response.tag = "Pong" => proto.str = <<"P", "o", "n", "g">>
       /\ proto.response.tag = "Error" =>
             proto.str = <<"E", "r", "r", "o", "r", ":", " ">> \o proto.response.msg
       /\ proto.back = proto.response
       /\ proto.raw_decoded.tag = "Ok" => proto.raw = <<"O", "k">>

\* How many replies to call c are queued on the connections.
QueuedReplies(c) ==
    Cardinality({ <<d, i>> \in Daemons \X (1 .. MaxCalls) :
                     i \in DOMAIN outbox[d] /\ outbox[d][i] = c })

\* C15: the closure runs at most once for a call, and the call it ran for is
\* completed exactly once, by one return_value or one error return: it has
\* one reply, queued once, and the reply is never replaced; a call the
\* closure did not run for has no reply. The reply fits the method: Ping is
\* answered only "Pong", Shutdown only "Ok", LoadImage only "Ok" or an error.
C15_CompletedExactlyOnce ==
    /\ [](\A c \in DOMAIN calls :
            LET k == calls[c]
            IN  /\ k.dispatches <= 1
                /\ k.dispatches = 0 => (k.reply = NoReplyYet /\ QueuedReplies(c) = 0)
                /\ k.dispatches = 1 =>
                      /\ k.reply.kind \in {"value", "error"}
                      /\ QueuedReplies(c) = (IF k.st = "returned" THEN 1 ELSE 0)
                /\ k.method = "Ping" /\ k.dispatches = 1 =>
                      k.reply = ValueReply(<<"P", "o", "n", "g">>)
                /\ k.method = "Shutdown" /\ k.dispatches = 1 =>
                      k.reply = ValueReply(<<"O", "k">>)
                /\ k.method = "LoadImage" /\ k.dispatches = 1 =>
                      \/ k.reply = ValueReply(<<"O", "k">>)
                      \/ k.reply.kind = "error"
                      \/ /\ k.reply.kind = "value"
                         /\ starts_with(k.reply.body, <<"E", "r", "r", "o", "r", ":">>))
    /\ [][\A c \in DOMAIN calls :
            /\ Returns(c) => calls'[c].reply.kind \in {"value", "error"}
            /\ calls[c].reply # NoReplyYet => calls'[c].reply = calls[c].reply]_vars

\* C15 witness: a Ping, answered "Pong", and a malformed LoadImage, answered
\* with an error, were each completed by the daemon and delivered.
C15_Witness ==
    \E c1, c2 \in DOMAIN calls :
       /\ calls[c1].method = "Ping"
       /\ calls[c1].dispatches = 1
       /\ calls[c1].st = "delivered"
       /\ calls[c2].method = "LoadImage"
       /\ calls[c2].reply.kind = "error"
       /\ calls[c2].dispatches = 1
       /\ calls[c2].st = "delivered"

\* The temporary file of the client process: satty-<process id>.png in the
\* temporary directory.
OwnTempFile == temp_dir \o "/satty-" \o ToString(client.pid) \o ".png"

\* C16: send_image with "-" reads standard input to the end before it writes
\* anything, writes the bytes to satty-<process id>.png, and issues the
\* LoadImage call, with that file's path, only when the file is written; when
\* the read or the write fails it connects to no bus and issues no call; no
\* step of the client removes a file.
C16_StdinToTempFileThenCall ==
    /\ [](client.arg = "-" =>
            /\ client.bus_calls > 0 =>
                  /\ [path |-> OwnTempFile, content |-> client.buf] \in tmpfiles
                  /\ client.wire = [method |-> "LoadImage",
                                    params |-> <<Arg("s", OwnTempFile)>>]
            /\ client.pc \in {"read_stdin", "write_tmp"} =>
                  client.bus_calls = 0 /\ client.connections = 0
            /\ (client.pc = "done" /\ client.result = Pending) =>
                  /\ client.bus_calls = 0 /\ client.connections = 0
                  /\ client.exit = 1)
    /\ [][/\ client.pc = "read_stdin" => tmpfiles' = tmpfiles
          /\ (client.arg = "-" /\ client'.bus_calls > client.bus_calls) =>
                /\ client.pc = "connect"
                /\ [path |-> OwnTempFile, content |-> client.buf] \in tmpfiles
          /\ \A f \in tmpfiles : \E g \in tmpfiles' : g.path = f.path]_allVars

\* C16 witness: standard input was written to the temporary file of process
\* 4243, beside the file an earlier client left, and the LoadImage call for
\* it was answered.
C16_Witness ==
    /\ client.arg = "-"
    /\ client.pid = 4243
    /\ client.pc = "done"
    /\ client.exit = 0
    /\ client.bus_calls = 1
    /\ tmpfiles = { [path |-> "/tmp/satty-4242.png", content |-> "stale"],
                    [path |-> "/tmp/satty-4243.png", content |-> "png-bytes"] }

\* The filename the daemon hands to load_pixbuf_from_file for the call w: the
\* closure decodes the call and spawns handle_message, which spawns the load.
DaemonLoads(w) ==
    LET spawned == method_call(w.method, w.params, 1).spawned
        loads   == handle_message(spawned[1].message, 1)
    IN  loads[1].message.filename

\* The client was given a path (not "-") to send.
GivenPath == client.op = "send_image" /\ client.arg \notin {NoFilename, "-"}

\* C17: the path is resolved by the client alone, before the call: a
\* LoadImage call for a given path is issued only after the path was resolved
\* and carries its absolute location; when the resolution fails the client
\* connects to no bus and issues no call; and the daemon loads the file of
\* exactly the filename it received.
C17_ResolvedBeforeSent ==
    /\ [](GivenPath =>
            /\ client.bus_calls > 0 =>
                  /\ client.arg \in DOMAIN AbsoluteLocation
                  /\ client.wire = [method |-> "LoadImage",
                                    params |-> <<Arg("s", AbsoluteLocation[client.arg])>>]
            /\ client.arg \notin DOMAIN AbsoluteLocation =>
                  /\ client.bus_calls = 0 /\ client.connections = 0
                  /\ client.wire = NoWire
                  /\ client.pc = "done" => client.exit = 1
            /\ client.pc = "canonicalize" =>
                  client.bus_calls = 0 /\ client.connections = 0)
    /\ []((client.op = "send_image" /\ client.bus_calls > 0) =>
            /\ DaemonLoads(client.wire) = client.filename
            /\ DaemonLoads(client.wire) = client.wire.params[1].v)
    /\ [][(GivenPath /\ client'.bus_calls > client.bus_calls) =>
             client.filename = AbsoluteLocation[client.arg]]_allVars

\* C17 witness: the relative path ../u/a.png was sent as /home/u/a.png and
\* the call was answered.
C17_Witness ==
    /\ client.op = "send_image"
    /\ client.arg = "../u/a.png"
    /\ client.pc = "done"
    /\ client.exit = 0
    /\ client.wire = [method |-> "LoadImage", params |-> <<Arg("s", "/home/u/a.png")>>]
    /\ DaemonLoads(client.wire) = "/home/u/a.png"

\* C18: a client invocation connects to the bus at most once and issues at
\* most one method call; once send_message has failed (connection failure,
\* call failure, timeout) the client neither connects nor calls again, its
\* result stays the failure, and it ends with a non-zero exit code.
C18_AtMostOneCall ==
    /\ [](/\ client.bus_calls <= 1
          /\ client.connections <= 1
          /\ client.bus_calls <= client.connections
          /\ (client.pc = "done" /\ client.result.kind = "failure") =>
                (client.exit # 0 /\ client.exit # -1))
    /\ [][client.result.kind = "failure" =>
             /\ client'.bus_calls = client.bus_calls
             /\ client'.connections = client.connections
             /\ client'.result = client.result
             /\ client'.pc = "done"]_allVars

\* C18 witness: a Ping that timed out: one call, exit code 1.
C18_Witness ==
    /\ client.op = "ping"
    /\ client.pc = "done"
    /\ client.result = Failed("Timeout")
    /\ client.bus_calls = 1
    /\ client.connections = 1
    /\ client.exit = 1

\* The moves of a daemon process: the RequestName call, the registration
\* after its reply, and the end of the process from any state.
DaemonMoves ==
    { <<"Unregistered", "NameRequested">>,
      <<"NameRequested", "Serving">>,
      <<"Serving", "Terminated">>,
      <<"Unregistered", "Terminated">>,
      <<"NameRequested", "Terminated">> }

\* C19: a daemon process moves only forward along Unregistered,
\* NameRequested, Serving, Terminated; the object is registered only after
\* RequestName returned 1 or 4, so a running process whose handler can be
\* invoked owns the name, and the closure runs only in the process owning the
\* name; a Serving daemon stays Serving, registered and owner of the name
\* until its process terminates.
C19_DaemonLifecycle ==
    /\ [][\A d \in Daemons :
            /\ pc'[d] # pc[d] => <<pc[d], pc'[d]>> \in DaemonMoves
            /\ pc[d] = "Serving" =>
                  \/ pc'[d] = "Serving" /\ exported'[d] /\ owner' = d
                  \/ pc'[d] = "Terminated" /\ exit_code'[d] # -1
            /\ exported[d] => exported'[d]]_vars
    /\ [](\A d \in Daemons :
            /\ exported[d] => name_result[d] \in {1, 4}
            /\ pc[d] \in {"Unregistered", "NameRequested"} => ~exported[d]
            /\ pc[d] = "Serving" => (exported[d] /\ owner = d)
            /\ (exported[d] /\ pc[d] # "Terminated") => (pc[d] = "Serving" /\ owner = d)
            /\ pc[d] = "Terminated" <=> exit_code[d] # -1)
    /\ [][\A c \in DOMAIN calls :
            Returns(c) => (owner = calls[c].target /\ exported[owner])]_vars

\* C19 witness: a daemon went through all four states (it exited with code 0
\* after a Shutdown it had handled) while a second one is waiting for the
\* reply to its RequestName.
C19_Witness ==
    \E d, e \in Daemons :
       /\ pc[d] = "Terminated"
       /\ exit_code[d] = 0
       /\ exported[d]
       /\ name_result[d] = 1
       /\ pc[e] = "NameRequested"

\* C20: the registration_id slot of a daemon process is written once, by
\* the register_object call at startup, and once set it is neither
\* overwritten nor cleared; the Daemon Server holds the handle for as long as
\* the process is Serving, until the process terminates.
C20_HandleHeldUntilExit ==
    /\ [](\A d \in Daemons :
            /\ server[d].writes <= 1
            /\ server[d].writes = 1 <=> server[d].registration_id = "Some"
            /\ exported[d] <=> server[d].registration_id = "Some"
            /\ pc[d] = "Serving" =>
                  /\ server[d].registration_id = "Some"
                  /\ server[d].held)
    /\ [][\A d \in Daemons :
            server[d].registration_id = "Some" => server'[d] = server[d]]_vars

\* The closure has acknowledged the LoadImage call c with "Ok".
LoadAcked(c) ==
    /\ c \in DOMAIN calls
    /\ IsLoadImage(c)
    /\ calls[c].reply = ValueReply(<<"O", "k">>)

\* The two outcomes of a load on the application channel.
LoadOutcomes(c) ==
    { <<AppInput("LoadNewImage", c), AppInput("ShowWindow", c)>>,
      <<AppInput("HideWindow", c)>> }

\* The load of call c has produced its outcome, or the process has ended.
LoadSettled(c) ==
    /\ c \in DOMAIN calls
    /\ \/ CommandsFor(c) \in LoadOutcomes(c)
       \/ calls[c].target \in Daemons /\ pc[calls[c].target] = "Terminated"

\* C21: unless the process terminates, a LoadImage call acknowledged with
\* "Ok" eventually has its continuation run and its outcome on the
\* application channel; the commands sent for a LoadImage call are at every
\* time none or one whole outcome (load new image + show window, or hide
\* window), and an outcome once sent is never added to.
C21_LoadEventuallySettles ==
    /\ \A c \in 1 .. MaxCalls : LoadAcked(c) ~> LoadSettled(c)
    /\ [](\A c \in DOMAIN calls :
            IsLoadImage(c) => CommandsFor(c) \in {<<>>} \cup LoadOutcomes(c))
    /\ [][\A c \in DOMAIN calls :
            CommandsFor(c) # <<>> => CommandsFor(c)' = CommandsFor(c)]_vars

\* C21 witness: two LoadImage calls of a daemon that is still Serving have
\* their outcomes on the channel, one of each kind.
C21_Witness ==
    \E c1, c2 \in DOMAIN calls :
       /\ LoadAcked(c1) /\ LoadAcked(c2)
       /\ calls[c1].target = calls[c2].target
       /\ pc[calls[c1].target] = "Serving"
       /\ CommandsFor(c1) = <<AppInput("LoadNewImage", c1), AppInput("ShowWindow", c1)>>
       /\ CommandsFor(c2) = <<AppInput("HideWindow", c2)>>

\* The place of the exit future on the main loop of d (0: none is queued).
ExitPos(d) ==
    IF \E i \in DOMAIN loop[d] : loop[d][i].kind = "exit"
    THEN CHOOSE i \in DOMAIN loop[d] :
            /\ loop[d][i].kind = "exit"
            /\ \A j \in 1 .. (i - 1) : loop[d][j].kind # "exit"
    ELSE 0

\* C22: from the dispatch of a Shutdown on, the exit future is queued on the
\* main loop and only moves forward, whatever is queued around it; when it is
\* at the head and the loop runs, the process terminates and the load
\* continuations still queued are gone; a terminated process sends no
\* command any more (so a LoadImage acknowledged before the Shutdown can stay
\* without any command for ever).
C22_ShutdownDoesNotDrain ==
    /\ [](\A d \in Daemons :
            (pc[d] = "Serving" /\ ShutdownHandled(d)) => ExitPos(d) > 0)
    /\ [][\A d \in Daemons :
            /\ (pc[d] = "Serving" /\ ExitPos(d) > 1 /\ pc'[d] = "Serving") =>
                  ExitPos(d)' \in {ExitPos(d), ExitPos(d) - 1}
            /\ (pc[d] = "Serving" /\ ExitPos(d) = 1) =>
                  \/ pc'[d] = "Terminated" /\ exit_code'[d] = 0 /\ loop'[d] = <<>>
                  \/ pc'[d] = "Serving" /\ ExitPos(d)' = 1 /\ channel'[d] = channel[d]
            /\ pc[d] = "Terminated" =>
                  pc'[d] = "Terminated" /\ channel'[d] = channel[d] /\ loop'[d] = <<>>]_vars

\* C22 witness: a LoadImage was acknowledged with Ok, and the caller got the
\* Ok, before the Shutdown behind it was dispatched; the process has exited
\* with code 0 and no command was ever sent for the LoadImage.
C22_Witness ==
    \E c1, c2 \in DOMAIN calls :
       /\ c1 < c2
       /\ LoadAcked(c1)
       /\ calls[c1].result = Responded(IpcResponse("Ok", <<>>))
       /\ calls[c2].method = "Shutdown"
       /\ calls[c2].handled
       /\ calls[c2].target = calls[c1].target
       /\ pc[calls[c1].target] = "Terminated"
       /\ exit_code[calls[c1].target] = 0
       /\ CommandsFor(c1) = <<>>

\* The caller's timeout of call c has expired.
Expired(c) == c \in DOMAIN calls /\ calls[c].expiredIn # ""

\* The daemon has done with call c all it does with a call: the closure has
\* completed it and, for an acknowledged LoadImage, the outcome is on the
\* application channel; or the process has ended.
DaemonDone(c) ==
    /\ c \in DOMAIN calls
    /\ \/ calls[c].target \in Daemons /\ pc[calls[c].target] = "Terminated"
       \/ /\ calls[c].dispatches = 1
          /\ calls[c].reply.kind \in {"value", "error"}
          /\ LoadAcked(c) => CommandsFor(c) \in LoadOutcomes(c)

\* C23: the expiry of the caller's timeout changes only what the caller
\* gets, a failure that no late reply replaces; the step leaves the call
\* itself, the daemon's main loop, its queued replies, its commands and the
\* bus as they are, and the daemon still dispatches and answers the call and
\* runs the continuation of a LoadImage (unless its process ends).
C23_TimeoutEndsOnlyTheWait ==
    /\ [][\A c \in DOMAIN calls :
            (~Expired(c) /\ Expired(c)') =>
               /\ calls' = [calls EXCEPT ![c].result = Failed("Timeout"),
                                         ![c].expiredIn = calls[c].st]
               /\ loop' = loop /\ outbox' = outbox /\ channel' = channel
               /\ pc' = pc /\ owner' = owner /\ exported' = exported]_vars
    /\ [](\A c \in DOMAIN calls :
            Expired(c) =>
               /\ calls[c].result = Failed("Timeout")
               /\ calls[c].st \in {"returned", "delivered"} => calls[c].dispatches = 1)
    /\ \A c \in 1 .. MaxCalls : Expired(c) ~> DaemonDone(c)

\* C23 witness: the timeout of a LoadImage call expired while the call was
\* waiting on the daemon's main loop; the daemon, still Serving, answered it
\* Ok, wrote the reply out and sent the commands of the load; the caller has
\* its timeout failure.
C23_Witness ==
    \E c \in DOMAIN calls :
       /\ calls[c].expiredIn = "inflight"
       /\ calls[c].result = Failed("Timeout")
       /\ LoadAcked(c)
       /\ calls[c].st = "delivered"
       /\ CommandsFor(c) = <<AppInput("LoadNewImage", c), AppInput("ShowWindow", c)>>
       /\ pc[calls[c].target] = "Serving"

\* C24: a daemon dispatches the calls queued on its main loop in the order
\* they were issued, and the commands on its application channel are in that order
\* too: all commands of an earlier LoadImage precede all commands of a later
\* one, so the commands of two loads are never interleaved.
C24_LoadsInCallOrder ==
    /\ [][\A c1, c2 \in DOMAIN calls :
            (c1 < c2 /\ calls[c1].target = calls[c2].target /\ Returns(c2)) =>
               calls[c1].st # "inflight"]_vars
    /\ [](\A d \in Daemons : \A i, j \in DOMAIN channel[d] :
            i < j => channel[d][i].call <= channel[d][j].call)
    /\ [](\A c1, c2 \in DOMAIN calls :
            (c1 < c2 /\ calls[c1].target = calls[c2].target /\ CommandsFor(c2) # <<>>) =>
               (LoadAcked(c1) => CommandsFor(c1) \in LoadOutcomes(c1)))

\* C24 witness: two LoadImage calls were queued on the main loop together,
\* the first for a file that decodes and the second for one that does not;
\* the channel carries the two commands of the first, then the one of the
\* second.
C24_Witness ==
    \E d \in Daemons :
       /\ Len(calls) = 2
       /\ calls[1].target = d /\ calls[2].target = d
       /\ calls[2].sentBefore = 0
       /\ channel[d] = <<AppInput("LoadNewImage", 1), AppInput("ShowWindow", 1),
                         AppInput("HideWindow", 2)>>

\* The App of daemon d handles a RequestExit of its GUI in this step.
GuiExits(d) == ~app[d].exit_requested /\ app'[d].exit_requested

\* C25: in daemon mode the step that handles a RequestExit of the GUI leaves
\* the window hidden and the application running, and changes nothing of the
\* daemon: it stays Serving, keeps the bus name and its exported object, has
\* no exit code, and its main loop, unsent replies and calls are as they
\* were; no daemon App ever quits; a Ping or LoadImage call issued to a
\* daemon after such a RequestExit, once delivered, has the reply Pong or Ok,
\* and the commands of an acknowledged load still reach the channel; an App
\* started without --daemon has quit exactly when it has handled a
\* RequestExit.
C25_RequestExitOnlyHides ==
    /\ [][\A d \in Daemons :
            GuiExits(d) =>
               /\ ~app'[d].visible
               /\ app'[d].running
               /\ app'[d].applied = app[d].applied
               /\ pc[d] = "Serving" /\ pc'[d] = "Serving"
               /\ owner' = owner /\ waiting' = waiting
               /\ exported' = exported
               /\ exit_code'[d] = -1
               /\ loop' = loop /\ outbox' = outbox
               /\ channel' = channel
               /\ calls' = calls]_allVars
    /\ [](\A d \in Daemons : app[d].running /\ app[d].is_daemon)
    /\ [](\A c \in DOMAIN calls :
            (calls[c].afterExit /\ calls[c].st = "delivered") =>
               /\ calls[c].method = "Ping" =>
                     calls[c].result = Responded(IpcResponse("Pong", <<>>))
               /\ IsLoadImage(c) =>
                     calls[c].result = Responded(IpcResponse("Ok", <<>>)))
    /\ [](/\ ~standalone.is_daemon
          /\ standalone.exit_requested <=> ~standalone.running)

\* C25 witness: a load showed the window of a serving daemon, a RequestExit
\* hid it, and a LoadImage issued afterwards was answered Ok and shows the
\* window again, the daemon still serving and owning the name; the App
\* without --daemon has quit.
C25_Witness ==
    \E d \in Daemons :
       /\ pc[d] = "Serving" /\ owner = d
       /\ app[d].hid /\ app[d].visible
       /\ ~standalone.running
       /\ \E c \in DOMAIN calls :
             /\ calls[c].target = d /\ calls[c].afterExit
             /\ LoadAcked(c) /\ calls[c].st = "delivered"
             /\ calls[c].result = Responded(IpcResponse("Ok", <<>>))
             /\ CommandsFor(c) = <<AppInput("LoadNewImage", c), AppInput("ShowWindow", c)>>
             /\ app[d].applied = Len(channel[d])

====
